---- MODULE Spec2Model ----
(***************************************************************************)
(* PyCascading function decorators (python/pycascading/decorators.py).     *)
(*                                                                         *)
(* A decorator built by _function_decorator either wraps a plain function  *)
(* into a new DecoratedFunction whose `decorators` dict holds the default  *)
(* attributes, or takes an existing DecoratedFunction; in both cases it    *)
(* merges its additional_parameters into the dict with dict.update and     *)
(* returns the DecoratedFunction.                                          *)
(*                                                                         *)
(* The model keeps a heap of DecoratedFunction objects, the module-level   *)
(* names the decorated functions are bound to (`@tag def f` rebinds f to   *)
(* tag(f)), the exception the last statement ended with, and two           *)
(* observers: the tags applied so far to each name and how often each user *)
(* function was invoked.                                                   *)
(***************************************************************************)
EXTENDS Integers, Sequences, FiniteSets, TLC

\* ------------------------------------------------------------------ bounds
\* Total number of decorator applications in one behaviour.
MaxTags == 3
\* numargs_expected is called with num in -1 .. MaxNum.
MaxNum == 0

\* ----------------------------------------------------------- Python values
\* Every Python value is a record of one shape, so that any two values can
\* be compared: kind says which of the other fields carries the value.
PyValue(kind, num, str, seq) == [kind |-> kind, num |-> num, str |-> str, seq |-> seq]
None == PyValue("NoneType", 0, "", <<>>)
PyStr(s) == PyValue("str", 0, s, <<>>)
PyInt(n) == PyValue("int", n, "", <<>>)
PyList(q) == PyValue("list", 0, "", q)
\* A member of one of the Java enums read off the wrapper classes.
JavaEnum(member) == PyValue("enum", 0, member, <<>>)
\* A plain (undecorated) user function, known by its name.
PyFunction(name) == PyValue("function", 0, name, <<>>)
\* A reference to the DecoratedFunction object at address ref of the heap.
DecoratedFunctionRef(ref) == PyValue("DecoratedFunction", ref, "", <<>>)

\* isinstance(v, DecoratedFunction)
isinstance_DecoratedFunction(v) == v.kind = "DecoratedFunction"

\* The user functions of the module under decoration, and the names they
\* are bound to.
Names == {"f", "g"}

\* Arguments the tags are called with.
Nums == (-1) .. MaxNum
Produces == {None, PyList(<<"a", "b">>)}

\* --------------------------------------------------------------- the dicts
\* A dict is a function from its keys to values.
EmptyDict == [k \in {} |-> None]

\* A merge that keeps the value a key already has (setdefault for each key).
dict_update_keeps_existing(d, p) ==
    [k \in (DOMAIN d) \cup (DOMAIN p) |-> IF k \in DOMAIN d THEN d[k] ELSE p[k]]

\* An assignment in place of the merge: the dict becomes p.
dict_update_replaces(d, p) == p

\* d.update(p): every key of p is set in d, the other keys of d are kept.
dict_update(d, p) ==
    [k \in (DOMAIN d) \cup (DOMAIN p) |-> IF k \in DOMAIN p THEN p[k] ELSE d[k]]

\* d[key] = value
dict_setitem(d, key, value) ==
    [k \in (DOMAIN d) \cup {key} |-> IF k = key THEN value ELSE d[k]]

\* DecoratedFunction(): a fresh object whose attribute bag is empty.
DecoratedFunction == EmptyDict

\* ------------------------------------------------------- _function_decorator
\* The else branch with the output method defaulting to YIELDS.
NewDecorators_yields_by_default(function) ==
    LET keys == {"function", "type", "input_conversion", "output_method", "output_type",
                 "flow_process_pass_in", "args", "kwargs"}
    IN  [k \in keys |->
            CASE k = "function" -> function
              [] k = "type" -> PyStr("none")
              [] k = "input_conversion" -> JavaEnum("ConvertInputTuples.NONE")
              [] k = "output_method" -> JavaEnum("OutputMethod.YIELDS")
              [] k = "output_type" -> JavaEnum("OutputType.AUTO")
              [] k = "flow_process_pass_in" -> JavaEnum("FlowProcessPassIn.NO")
              [] OTHER -> None]

\* The dict of a DecoratedFunction created for a plain function: the
\* assignments of the else branch, in order.
NewDecorators(function) ==
    LET d0 == DecoratedFunction
        d1 == dict_setitem(d0, "function", function)
        d2 == dict_setitem(d1, "type", PyStr("none"))
        d3 == dict_setitem(d2, "input_conversion", JavaEnum("ConvertInputTuples.NONE"))
        d4 == dict_setitem(d3, "output_method", JavaEnum("OutputMethod.YIELDS_OR_RETURNS"))
        d5 == dict_setitem(d4, "output_type", JavaEnum("OutputType.AUTO"))
        d6 == dict_setitem(d5, "flow_process_pass_in", JavaEnum("FlowProcessPassIn.NO"))
        d7 == dict_setitem(d6, "args", None)
        d8 == dict_setitem(d7, "kwargs", None)
    IN  d8

\* The address a new object gets in heap.
NewRef(heap) == Cardinality(DOMAIN heap) + 1

\* fun_decorator without the isinstance test: every argument is wrapped anew.
fun_decorator_always_wraps(heap, function_or_callabledict, additional_parameters) ==
    LET dff == NewRef(heap)
    IN  [exc |-> "",
         dff |-> dff,
         heap |-> [r \in (DOMAIN heap) \cup {dff} |->
                      IF r = dff
                      THEN dict_update(NewDecorators(function_or_callabledict),
                                       additional_parameters)
                      ELSE heap[r]]]

\* fun_decorator returning a merged copy of a DecoratedFunction it is given.
fun_decorator_copies(heap, function_or_callabledict, additional_parameters) ==
    LET isdff == isinstance_DecoratedFunction(function_or_callabledict)
        dff == NewRef(heap)
        decorators == IF isdff THEN heap[function_or_callabledict.num]
                      ELSE NewDecorators(function_or_callabledict)
    IN  [exc |-> "",
         dff |-> dff,
         heap |-> [r \in (DOMAIN heap) \cup {dff} |->
                      IF r = dff THEN dict_update(decorators, additional_parameters)
                      ELSE heap[r]]]

\* fun_decorator rejecting a second, different input conversion.
fun_decorator_validating(heap, function_or_callabledict, additional_parameters) ==
    LET isdff == isinstance_DecoratedFunction(function_or_callabledict)
        dff == IF isdff THEN function_or_callabledict.num ELSE NewRef(heap)
        decorators == IF isdff THEN heap[dff]
                      ELSE NewDecorators(function_or_callabledict)
        conflict == /\ "input_conversion" \in DOMAIN additional_parameters
                    /\ decorators["input_conversion"] # JavaEnum("ConvertInputTuples.NONE")
                    /\ decorators["input_conversion"] # additional_parameters["input_conversion"]
    IN  IF conflict
        THEN [exc |-> "ValueError", dff |-> 0, heap |-> heap]
        ELSE [exc |-> "",
              dff |-> dff,
              heap |-> [r \in (DOMAIN heap) \cup {dff} |->
                           IF r = dff THEN dict_update(decorators, additional_parameters)
                           ELSE heap[r]]]

\* fun_decorator(function_or_callabledict) of the closure made by
\* _function_decorator(additional_parameters), run on the heap `heap`.
\* The result is the exception raised ("" when the call returns), the
\* address of the returned DecoratedFunction and the heap after the call.
fun_decorator(heap, function_or_callabledict, additional_parameters) ==
    LET isdff == isinstance_DecoratedFunction(function_or_callabledict)
        dff == IF isdff THEN function_or_callabledict.num ELSE NewRef(heap)
        decorators == IF isdff THEN heap[dff]
                      ELSE NewDecorators(function_or_callabledict)
    IN  [exc |-> "",
         dff |-> dff,
         heap |-> [r \in (DOMAIN heap) \cup {dff} |->
                      IF r = dff THEN dict_update(decorators, additional_parameters)
                      ELSE heap[r]]]

\* ------------------------------------------------------ the named decorators
\* Each is the additional_parameters it hands to _function_decorator.
numargs_expected(num) == [k \in {"numargs_expected"} |-> PyInt(num)]
python_list_expected == [k \in {"input_conversion"} |-> JavaEnum("ConvertInputTuples.PYTHON_LIST")]
python_dict_expected == [k \in {"input_conversion"} |-> JavaEnum("ConvertInputTuples.PYTHON_DICT")]
collects_output == [k \in {"output_method"} |-> JavaEnum("OutputMethod.COLLECTS")]
yields == [k \in {"output_method"} |-> JavaEnum("OutputMethod.YIELDS")]
produces_python_list == [k \in {"output_type"} |-> JavaEnum("OutputType.PYTHON_LIST")]
produces_tuples == [k \in {"output_type"} |-> JavaEnum("OutputType.TUPLE")]
flowprocess_expected == [k \in {"flow_process_pass_in"} |-> JavaEnum("FlowProcessPassIn.YES")]
\* A filter that also resets the output fields.
filter_clears_produces ==
    [k \in {"type", "produces"} |-> IF k = "type" THEN PyStr("filter") ELSE None]
filter == [k \in {"type"} |-> PyStr("filter")]
map(produces) ==
    [k \in {"type", "produces"} |-> IF k = "type" THEN PyStr("map") ELSE produces]
\* reduce with the type of map left in.
reduce_typed_map(produces) ==
    [k \in {"type", "produces"} |-> IF k = "type" THEN PyStr("map") ELSE produces]
reduce(produces) ==
    [k \in {"type", "produces"} |-> IF k = "type" THEN PyStr("reduce") ELSE produces]

\* ------------------------------------------------------------------- state
VARIABLES
    binding,     \* name -> the value the name is bound to
    heap,        \* address -> the decorators dict of that DecoratedFunction
    applied,     \* name -> the tags applied to the name so far, oldest first
    invoked,     \* name -> number of invocations of the user function
    exc          \* the exception the last statement ended with, "" for none

vars == <<binding, heap, applied, invoked, exc>>

\* A tag as written in the program text: the decorator's name and argument.
Tag(name, arg) == [tag |-> name, arg |-> arg]

Init ==
    /\ binding = [n \in Names |-> PyFunction(n)]
    /\ heap = [r \in {} |-> EmptyDict]
    /\ applied = [n \in Names |-> <<>>]
    /\ invoked = [n \in Names |-> 0]
    /\ exc = ""

TagsApplied == Len(applied["f"]) + Len(applied["g"])

\* The statement with a look at the function while wrapping it: calling it.
Apply_invoking(name, additional_parameters) ==
    LET res == fun_decorator(heap, binding[name], additional_parameters)
    IN  /\ exc' = res.exc
        /\ heap' = res.heap
        /\ binding' = [binding EXCEPT ![name] = DecoratedFunctionRef(res.dff)]
        /\ invoked' = [invoked EXCEPT ![name] =
                          IF isinstance_DecoratedFunction(binding[name]) THEN @ ELSE @ + 1]

\* `@tag def name`, that is name = tag(name): the decorator is applied to the
\* value bound to name and name is rebound to what it returns; an exception
\* leaves the name as it was. The user function is not called.
Apply(name, additional_parameters) ==
    LET res == fun_decorator(heap, binding[name], additional_parameters)
    IN  /\ exc' = res.exc
        /\ IF res.exc = ""
           THEN /\ heap' = res.heap
                /\ binding' = [binding EXCEPT ![name] = DecoratedFunctionRef(res.dff)]
           ELSE UNCHANGED <<heap, binding>>
        /\ UNCHANGED invoked

\* The statement with its observer: the tag joins the history of name.
Decorate(name, tag, additional_parameters) ==
    /\ TagsApplied < MaxTags
    /\ Apply(name, additional_parameters)
    /\ applied' = [applied EXCEPT ![name] = Append(@, tag)]

NumargsExpected(name, num) == Decorate(name, Tag("numargs_expected", PyInt(num)), numargs_expected(num))
PythonListExpected(name) == Decorate(name, Tag("python_list_expected", None), python_list_expected)
PythonDictExpected(name) == Decorate(name, Tag("python_dict_expected", None), python_dict_expected)
CollectsOutput(name) == Decorate(name, Tag("collects_output", None), collects_output)
Yields(name) == Decorate(name, Tag("yields", None), yields)
ProducesPythonList(name) == Decorate(name, Tag("produces_python_list", None), produces_python_list)
ProducesTuples(name) == Decorate(name, Tag("produces_tuples", None), produces_tuples)
FlowprocessExpected(name) == Decorate(name, Tag("flowprocess_expected", None), flowprocess_expected)
Filter(name) == Decorate(name, Tag("filter", None), filter)
Map(name, produces) == Decorate(name, Tag("map", produces), map(produces))
Reduce(name, produces) == Decorate(name, Tag("reduce", produces), reduce(produces))

\* A module decorating both of its functions, in any order.
Next ==
    \/ \E n \in Names, num \in Nums : NumargsExpected(n, num)
    \/ \E n \in Names : PythonListExpected(n)
    \/ \E n \in Names : PythonDictExpected(n)
    \/ \E n \in Names : CollectsOutput(n)
    \/ \E n \in Names : Yields(n)
    \/ \E n \in Names : ProducesPythonList(n)
    \/ \E n \in Names : ProducesTuples(n)
    \/ \E n \in Names : FlowprocessExpected(n)
    \/ \E n \in Names : Filter(n)
    \/ \E n \in Names, p \in Produces : Map(n, p)
    \/ \E n \in Names, p \in Produces : Reduce(n, p)

Spec == Init /\ [][Next]_vars

\* A module stacking decorators on f alone.
NextChain ==
    \/ \E num \in Nums : NumargsExpected("f", num)
    \/ PythonListExpected("f")
    \/ PythonDictExpected("f")
    \/ CollectsOutput("f")
    \/ Yields("f")
    \/ ProducesPythonList("f")
    \/ ProducesTuples("f")
    \/ FlowprocessExpected("f")
    \/ Filter("f")
    \/ \E p \in Produces : Map("f", p)
    \/ \E p \in Produces : Reduce("f", p)

SpecChain == Init /\ [][NextChain]_vars

\* Every additional_parameters dict a named decorator can hand over.
Decorators ==
    {numargs_expected(num) : num \in Nums}
        \cup {map(p) : p \in Produces} \cup {reduce(p) : p \in Produces}
        \cup {python_list_expected, python_dict_expected, collects_output, yields,
              produces_python_list, produces_tuples, flowprocess_expected, filter}

\* The decorators stacked on f without the observer and so without a bound
\* on their number: every state a DecoratedFunction can get into.
Restack(additional_parameters) ==
    /\ Apply("f", additional_parameters)
    /\ UNCHANGED applied

NextStates == \E p \in Decorators : Restack(p)

SpecStates == Init /\ [][NextStates]_vars

\* ----------------------------------------------- vocabulary of the properties
\* The attribute set of each named tag, as the documentation tabulates it,
\* over the keys the code stores the attributes under: role is 'type',
\* declared_output_fields 'produces', expected_arity 'numargs_expected',
\* input_shape 'input_conversion', output_mode 'output_method', output_shape
\* 'output_type' and receives_context 'flow_process_pass_in'.
DocAttrs(t) ==
    CASE t.tag = "map" -> [k \in {"type", "produces"} |-> IF k = "type" THEN PyStr("map") ELSE t.arg]
      [] t.tag = "reduce" -> [k \in {"type", "produces"} |-> IF k = "type" THEN PyStr("reduce") ELSE t.arg]
      [] t.tag = "filter" -> [k \in {"type"} |-> PyStr("filter")]
      [] t.tag = "numargs_expected" -> [k \in {"numargs_expected"} |-> t.arg]
      [] t.tag = "python_list_expected" -> [k \in {"input_conversion"} |-> JavaEnum("ConvertInputTuples.PYTHON_LIST")]
      [] t.tag = "python_dict_expected" -> [k \in {"input_conversion"} |-> JavaEnum("ConvertInputTuples.PYTHON_DICT")]
      [] t.tag = "collects_output" -> [k \in {"output_method"} |-> JavaEnum("OutputMethod.COLLECTS")]
      [] t.tag = "yields" -> [k \in {"output_method"} |-> JavaEnum("OutputMethod.YIELDS")]
      [] t.tag = "produces_python_list" -> [k \in {"output_type"} |-> JavaEnum("OutputType.PYTHON_LIST")]
      [] t.tag = "produces_tuples" -> [k \in {"output_type"} |-> JavaEnum("OutputType.TUPLE")]
      [] t.tag = "flowprocess_expected" -> [k \in {"flow_process_pass_in"} |-> JavaEnum("FlowProcessPassIn.YES")]

\* The documented attributes and their documented defaults; an optional
\* attribute that is none has no entry in the dict, or the entry None.
AttrKeys ==
    {"type", "produces", "numargs_expected", "input_conversion", "output_method",
     "output_type", "flow_process_pass_in"}

DocDefault(k) ==
    CASE k = "type" -> PyStr("none")
      [] k = "input_conversion" -> JavaEnum("ConvertInputTuples.NONE")
      [] k = "output_method" -> JavaEnum("OutputMethod.YIELDS_OR_RETURNS")
      [] k = "output_type" -> JavaEnum("OutputType.AUTO")
      [] k = "flow_process_pass_in" -> JavaEnum("FlowProcessPassIn.NO")
      [] k = "numargs_expected" -> None
      [] k = "produces" -> None

\* The value of attribute k in dict d as a reader sees it (d.get(k)).
Attr(d, k) == IF k \in DOMAIN d THEN d[k] ELSE None

Tagged(n) == applied[n] # <<>>
\* The dict of the DecoratedFunction name n is bound to.
DictOf(n) == heap[binding[n].num]

Max(S) == CHOOSE x \in S : \A y \in S : y <= x

\* The step applies a tag to name n.
Stepped(n) == applied'[n] # applied[n]

\* The positions of history h whose tag names attribute k.
Writers(h, k) == {i \in 1 .. Len(h) : k \in DOMAIN DocAttrs(h[i])}

\* C1: after tags T1..Tn applied in order to a plain callable, every attribute
\* of the descriptor has the value given by the last Ti that names it, or its
\* documented default when no Ti names it (last write wins).
C1_LastWriteWins ==
    \A n \in Names :
        Tagged(n) =>
            /\ isinstance_DecoratedFunction(binding[n])
            /\ \A k \in AttrKeys :
                  LET W == Writers(applied[n], k)
                  IN  Attr(DictOf(n), k) =
                          IF W = {} THEN DocDefault(k)
                          ELSE DocAttrs(applied[n][Max(W)])[k]

\* python_list_expected then python_dict_expected: the input arrives as a dict.
C1_Witness ==
    /\ applied["f"] = <<Tag("python_list_expected", None), Tag("python_dict_expected", None)>>
    /\ DictOf("f")["input_conversion"] = JavaEnum("ConvertInputTuples.PYTHON_DICT")

\* C2: a DecoratedFunction is created exactly when a tag is applied to a plain
\* function, and a tag applied to a DecoratedFunction returns that same
\* object: an untagged name is bound to its plain function and no object
\* wraps it; a name tagged once or more is bound to the one object that wraps
\* its function, and the heap holds no other objects.
C2_OneDescriptor ==
    /\ \A n \in Names :
          /\ Tagged(n) <=> isinstance_DecoratedFunction(binding[n])
          /\ ~Tagged(n) => binding[n] = PyFunction(n)
          /\ Tagged(n) =>
                /\ binding[n].num \in DOMAIN heap
                /\ Attr(DictOf(n), "function") = PyFunction(n)
          /\ Cardinality({r \in DOMAIN heap : Attr(heap[r], "function") = PyFunction(n)})
                = IF Tagged(n) THEN 1 ELSE 0
    /\ Cardinality(DOMAIN heap) = Cardinality({n \in Names : Tagged(n)})

\* Three tags on f: the first created the object, the next two returned it.
C2_Witness ==
    /\ Len(applied["f"]) = 3
    /\ binding["f"] = DecoratedFunctionRef(1)
    /\ DOMAIN heap = {1}

\* C3: a DecoratedFunction created for a plain function starts from the
\* documented defaults: after the first tag every attribute the tag does not
\* name holds its default (type 'none', no input conversion, output method
\* and type automatic, no flow process, no numargs_expected, no produces).
C3_Defaults ==
    \A n \in Names :
        Len(applied[n]) = 1 =>
            \A k \in AttrKeys \ DOMAIN DocAttrs(applied[n][1]) :
                Attr(DictOf(n), k) = DocDefault(k)

C3_Witness ==
    /\ applied["f"] = <<Tag("numargs_expected", PyInt(0))>>
    /\ DictOf("f")["type"] = PyStr("none")
    /\ DictOf("f")["output_type"] = JavaEnum("OutputType.AUTO")
    /\ "produces" \notin DOMAIN DictOf("f")

\* What applying p to value v on heap h returns: the object and its dict.
Once(h, v, p) ==
    LET r == fun_decorator(h, v, p)
    IN  [exc |-> r.exc, dff |-> r.dff, decorators |-> r.heap[r.dff]]

\* What applying p and then q to value v on heap h returns.
Twice(h, v, p, q) ==
    LET r == fun_decorator(h, v, p)
    IN  Once(r.heap, DecoratedFunctionRef(r.dff), q)

\* C4: two tags whose attribute sets are disjoint commute: from a plain
\* function or from any reachable DecoratedFunction, A then B and B then A
\* return the same object in the same state.
C4_DisjointCommute ==
    \A n \in Names : \A A \in Decorators, B \in Decorators :
        (DOMAIN A) \cap (DOMAIN B) = {} =>
            Twice(heap, binding[n], A, B) = Twice(heap, binding[n], B, A)

\* f is in the state map(['a','b']) then numargs_expected(0) give on a plain
\* function, which is the state the opposite order gives.
C4_Witness ==
    /\ isinstance_DecoratedFunction(binding["f"])
    /\ DictOf("f") = Twice(EmptyDict, PyFunction("f"), map(PyList(<<"a", "b">>)),
                           numargs_expected(0)).decorators
    /\ DictOf("f") = Twice(EmptyDict, PyFunction("f"), numargs_expected(0),
                           map(PyList(<<"a", "b">>))).decorators

\* C5: tagging is idempotent: from a plain function or from any reachable
\* DecoratedFunction, applying a tag twice in a row returns the same object
\* in the same state as applying it once.
C5_Idempotent ==
    \A n \in Names : \A A \in Decorators :
        Twice(heap, binding[n], A, A) = Once(heap, binding[n], A)

\* f is a DecoratedFunction tagged yields and reduce(None), and one more
\* reduce(None) returns it as it is.
C5_Witness ==
    /\ isinstance_DecoratedFunction(binding["f"])
    /\ DictOf("f") = Twice(EmptyDict, PyFunction("f"), yields, reduce(None)).decorators
    /\ Once(heap, binding["f"], reduce(None)).decorators = DictOf("f")

\* C6: tagging never invokes the wrapped function and changes nothing but the
\* tagged DecoratedFunction: in every step the invocation counts stay zero,
\* the other names keep their values and every other object keeps its dict.
C6_NeverInvokes ==
    [][\A t \in Names :
          Stepped(t) =>
              LET target == binding'[t].num
              IN  /\ \A n \in Names : invoked'[n] = 0
                  /\ \A n \in Names \ {t} : binding'[n] = binding[n]
                  /\ DOMAIN heap' \subseteq (DOMAIN heap) \cup {target}
                  /\ \A r \in (DOMAIN heap) \ {target} :
                        r \in DOMAIN heap' /\ heap'[r] = heap[r]
      ]_vars

\* Both functions were tagged, g twice, and neither was invoked.
C6_Witness ==
    /\ Tagged("f")
    /\ Len(applied["g"]) = 2
    /\ heap[binding["f"].num]["function"] = PyFunction("f")
    /\ invoked = [n \in Names |-> 0]

\* C7: the 'function' entry is the wrapped function for good: whatever tags
\* were applied to f, the dict of its DecoratedFunction holds f itself; and
\* map(produces) followed by numargs_expected(num) gives type 'map', produces
\* and numargs_expected as passed, and the function f.
C7_FunctionKept ==
    \A n \in Names :
        Tagged(n) =>
            /\ Attr(DictOf(n), "function") = PyFunction(n)
            /\ \A p \in Produces, num \in Nums :
                  applied[n] = <<Tag("map", p), Tag("numargs_expected", PyInt(num))>> =>
                      /\ Attr(DictOf(n), "type") = PyStr("map")
                      /\ Attr(DictOf(n), "produces") = p
                      /\ Attr(DictOf(n), "numargs_expected") = PyInt(num)

C7_Witness ==
    /\ applied["f"] = <<Tag("map", PyList(<<"a", "b">>)), Tag("numargs_expected", PyInt(0))>>
    /\ DictOf("f")["function"] = PyFunction("f")
    /\ DictOf("f")["numargs_expected"] = PyInt(0)

\* C8: no tag raises and none validates: no application has ended in an
\* exception, and every named tag applied next to a plain function or to a
\* DecoratedFunction in any state, whatever its arity argument, returns a
\* DecoratedFunction too.
C8_NeverRaises ==
    /\ exc = ""
    /\ \A n \in Names : \A A \in Decorators :
          LET r == fun_decorator(heap, binding[n], A)
          IN  r.exc = "" /\ r.dff \in DOMAIN r.heap

\* f has no role, takes lists and a negative number of arguments, and the
\* conflicting python_dict_expected is accepted next.
C8_Witness ==
    /\ isinstance_DecoratedFunction(binding["f"])
    /\ exc = ""
    /\ DictOf("f")["type"] = PyStr("none")
    /\ DictOf("f")["input_conversion"] = JavaEnum("ConvertInputTuples.PYTHON_LIST")
    /\ Attr(DictOf("f"), "numargs_expected") = PyInt(-1)
    /\ Once(heap, binding["f"], python_dict_expected).decorators["input_conversion"]
          = JavaEnum("ConvertInputTuples.PYTHON_DICT")

\* C9: a tag un-sets nothing: applied to a DecoratedFunction, it leaves every
\* key of the dict in place, and every key outside its own attribute set with
\* the value it had.
C9_NothingUnset ==
    [][\A n \in Names :
          (Stepped(n) /\ isinstance_DecoratedFunction(binding[n])) =>
              /\ isinstance_DecoratedFunction(binding'[n])
              /\ \A k \in DOMAIN DictOf(n) :
                    /\ k \in DOMAIN heap'[binding'[n].num]
                    /\ k \notin DOMAIN DocAttrs(applied'[n][Len(applied'[n])]) =>
                          heap'[binding'[n].num][k] = DictOf(n)[k]
      ]_vars

\* filter() after map(['a','b']): the output fields are still declared.
C9_Witness ==
    /\ applied["f"] = <<Tag("map", PyList(<<"a", "b">>)), Tag("filter", None)>>
    /\ DictOf("f")["type"] = PyStr("filter")
    /\ DictOf("f")["produces"] = PyList(<<"a", "b">>)

\* The positions of history h that hold a role tag.
RoleTags(h) == {i \in 1 .. Len(h) : h[i].tag \in {"map", "filter", "reduce"}}

\* C10: the type of a DecoratedFunction is 'none', 'map', 'filter' or 'reduce';
\* it is 'none' exactly while no role tag was applied, and afterwards it is
\* the role of the role tag applied last.
C10_Role ==
    \A n \in Names :
        Tagged(n) =>
            LET W == RoleTags(applied[n])
                role == Attr(DictOf(n), "type")
            IN  /\ role \in {PyStr("none"), PyStr("map"), PyStr("filter"), PyStr("reduce")}
                /\ role = PyStr("none") <=> W = {}
                /\ W # {} => role = PyStr(applied[n][Max(W)].tag)

\* reduce, then filter, then a tag that is no role tag: the type stays filter.
C10_Witness ==
    /\ applied["f"] = <<Tag("reduce", None), Tag("filter", None), Tag("yields", None)>>
    /\ DictOf("f")["type"] = PyStr("filter")
====
